---------------------------- MODULE Spec2Model ----------------------------
(***************************************************************************)
(* Model of libraries/ms5611/ms5611.cpp: the interrupt driven two-phase    *)
(* sampler of the MS5611 barometer, the flag based lock that hands the raw *)
(* samples to the main loop, and the fixed-point compensation.             *)
(***************************************************************************)
EXTENDS Integers, Sequences, FiniteSets, TLC

(***************************************************************************)
(* Wide integers.  TLC's integers are 32 bits wide, the driver computes in *)
(* int32_t and int64_t and the reference algorithm in unbounded integers.  *)
(* A wide integer is a two's complement number of NLimbs limbs of LimbBits *)
(* bits, least significant limb first: 72 bits, wide enough to hold every  *)
(* value of the reference algorithm exactly (the largest, D1 * SENS, is    *)
(* below 2^62 for 16 bit coefficients and 24 bit samples).                 *)
(***************************************************************************)
LimbBits == 6 + 6
LimbBase == 2 ^ LimbBits
NLimbs == 3 + 3
Limbs == 1 .. NLimbs

\* The wide integer of a TLC integer n (-2^31 <= n < 2^31), sign extended.
Wide(n) ==
    [i \in Limbs |->
        IF i = 1 THEN n % LimbBase
        ELSE IF i = 2 THEN (n \div LimbBase) % LimbBase
        ELSE IF i = 3 THEN (n \div (LimbBase * LimbBase)) % LimbBase
        ELSE IF n < 0 THEN LimbBase - 1 ELSE 0]

WIsNeg(a) == a[NLimbs] >= LimbBase \div 2

\* The limb of a at position j, for j beyond NLimbs the sign extension.
WLimb(a, j) == IF j <= NLimbs THEN a[j] ELSE IF WIsNeg(a) THEN LimbBase - 1 ELSE 0

RECURSIVE WCarry(_, _, _)
\* Carry propagation over the column sums col, from limb i with carry c in.
WCarry(col, i, c) ==
    IF i > NLimbs THEN << >>
    ELSE LET s == col[i] + c
         IN  << s % LimbBase >> \o WCarry(col, i + 1, s \div LimbBase)

WAdd(a, b) == WCarry([i \in Limbs |-> a[i] + b[i]], 1, 0)

WNeg(a) == WCarry([i \in Limbs |-> (LimbBase - 1) - a[i]], 1, 1)

WSub(a, b) == WAdd(a, WNeg(b))

RECURSIVE WColumn(_, _, _, _)
\* Sum of a[i] * b[k + 1 - i] for i in lo .. k: column k of the product.
WColumn(a, b, k, lo) ==
    IF lo > k THEN 0 ELSE a[lo] * b[k + 1 - lo] + WColumn(a, b, k, lo + 1)

\* Product modulo 2^72 (exact for two's complement operands whose product fits).
WMul(a, b) == WCarry([k \in Limbs |-> WColumn(a, b, k, 1)], 1, 0)

\* Arithmetic shift right by n bits (floor division by 2^n), as >>= on a signed
\* integer does on the targets of the driver.
WShr(a, n) ==
    LET q == n \div LimbBits
        r == n % LimbBits
    IN  [i \in Limbs |->
            ((WLimb(a, i + q) \div (2 ^ r))
              + (WLimb(a, i + q + 1) % (2 ^ r)) * (2 ^ (LimbBits - r))) % LimbBase]

WLess(a, b) == WIsNeg(WSub(a, b))

\* The value an int64_t holds: bits 0..63 kept, bit 63 the sign.
Wrap64(a) ==
    LET top == a[NLimbs] % 16
    IN  [i \in Limbs |->
            IF i < NLimbs THEN a[i]
            ELSE IF top >= 8 THEN top + (LimbBase - 16) ELSE top]

\* The value an int32_t holds, as a TLC integer: bits 0..31 kept, bit 31 the sign.
Wrap32(a) ==
    LET top == a[3] % 256
    IN  (IF top >= 128 THEN top - 256 ELSE top) * (LimbBase * LimbBase)
          + a[2] * LimbBase + a[1]

\* Whether a is the sign extension of its low 64 bits / low 32 bits.
Fits64(a) == Wrap64(a) = a
Fits32(a) == Wide(Wrap32(a)) = a


(***************************************************************************)
(* Calibration compensation, ms5611_updateData lines 232-306.  Every       *)
(* statement keeps the width of the variable it assigns: int32_t results   *)
(* pass through Wrap32, int64_t results through Wrap64.  A signed overflow *)
(* is undefined in C++; the multiply instructions of the AVR and ARM       *)
(* builds of the driver deliver the low bits of the product, which is what *)
(* Wrap32 and Wrap64 return.                                               *)
(***************************************************************************)

\* int32_t c5s = c5; c5s <<= 8; dt = d2 - c5s;
CompDt(c, d2) == Wrap32(WSub(Wide(d2), Wide(Wrap32(WMul(Wide(c[5]), Wide(2 ^ 8))))))

\* int32_t c6s = c6; c6s *= dt; c6s >>= 23; temp = 2000 + c6s;
CompTemp(c, dt) ==
    LET c6s == Wrap32(WMul(Wide(c[6]), Wide(dt)))
    IN  Wrap32(WAdd(Wide(2000), Wide(c6s \div (2 ^ 23))))

\* int64_t c2d = c2; c2d <<= 16; int64_t c4d = c4; c4d *= dt; c4d >>= 7; off = c2d + c4d;
CompOff(c, dt) ==
    LET c2d == Wrap64(WMul(Wide(c[2]), Wide(2 ^ 16)))
        c4d == WShr(Wrap64(WMul(Wide(c[4]), Wide(dt))), 7)
    IN  Wrap64(WAdd(c2d, c4d))

\* int64_t c1d = c1; c1d <<= 15; int64_t c3d = c3; c3d *= dt; c3d >>= 8; sens = c1d + c3d;
CompSens(c, dt) ==
    LET c1d == Wrap64(WMul(Wide(c[1]), Wide(2 ^ 15)))
        c3d == WShr(Wrap64(WMul(Wide(c[3]), Wide(dt))), 8)
    IN  Wrap64(WAdd(c1d, c3d))

\* A faulty second order compensation: the very low temperature test is made
\* on TEMP < 1500 instead of TEMP < -1500.  C11_SecondOrderOnce rejects it.
CompSecondOrder_WrongTest(dt, temp) ==
    IF temp < 2000
    THEN LET t2    == WShr(Wrap64(WMul(Wide(dt), Wide(dt))), 31)
             d     == Wide(Wrap32(WSub(Wide(temp), Wide(2000))))
             sq5   == Wrap64(WMul(Wrap64(WMul(d, d)), Wide(5)))
             off2  == WShr(sq5, 1)
             sens2 == WShr(sq5, 2)
         IN  IF temp < 1500
             THEN LET dtemp0 == Wide(Wrap32(WAdd(Wide(temp), Wide(1500))))
                      dtemp  == Wrap64(WMul(dtemp0, dtemp0))
                  IN  << t2,
                         Wrap64(WAdd(off2, Wrap64(WMul(Wide(7), dtemp)))),
                         Wrap64(WAdd(sens2, WShr(Wrap64(WMul(dtemp, Wide(11))), 1))) >>
             ELSE << t2, off2, sens2 >>
    ELSE << Wide(0), Wide(0), Wide(0) >>

\* Lines 269-294: the second order terms <<t2, off2, sens2>> for the first
\* order temp; all zero when temp >= 2000 (the branch is not taken).
CompSecondOrder(dt, temp) ==
    IF temp < 2000
    THEN LET t2    == WShr(Wrap64(WMul(Wide(dt), Wide(dt))), 31)
             d     == Wide(Wrap32(WSub(Wide(temp), Wide(2000))))
             sq5   == Wrap64(WMul(Wrap64(WMul(d, d)), Wide(5)))
             off2  == WShr(sq5, 1)
             sens2 == WShr(sq5, 2)
         IN  IF temp < -1500
             THEN LET dtemp0 == Wide(Wrap32(WAdd(Wide(temp), Wide(1500))))
                      dtemp  == Wrap64(WMul(dtemp0, dtemp0))
                  IN  << t2,
                         Wrap64(WAdd(off2, Wrap64(WMul(Wide(7), dtemp)))),
                         Wrap64(WAdd(sens2, WShr(Wrap64(WMul(dtemp, Wide(11))), 1))) >>
             ELSE << t2, off2, sens2 >>
    ELSE << Wide(0), Wide(0), Wide(0) >>

\* Lines 232-302: the integers temp (int32_t) and p (int64_t) the driver
\* computes from the coefficients c = <<c1..c6>> and the snapshot d1, d2.
ms5611_compensate(c, d1, d2) ==
    LET dt    == CompDt(c, d2)
        temp1 == CompTemp(c, dt)
        so    == CompSecondOrder(dt, temp1)
        temp  == Wrap32(WSub(Wide(temp1), so[1]))
        off   == Wrap64(WSub(CompOff(c, dt), so[2]))
        sens  == Wrap64(WSub(CompSens(c, dt), so[3]))
        p     == Wrap64(WSub(WShr(Wrap64(WMul(Wide(d1), sens)), 21), off))
    IN  [temp |-> temp, p |-> p]

\* Lines 305-306: the doubles stored, as exact quotients numerator / denominator
\* (temp / 100 and p / 32768 / 100).
CompensatedTemperatureOf(r) == << r.temp, 100 >>
CompensatedPressureOf(r) == << r.p, 32768 * 100 >>

(***************************************************************************)
(* The manufacturer's reference algorithm (spec section 4.3) evaluated in  *)
(* integers that never wrap: TEMP and P as wide integers.                  *)
(***************************************************************************)
RefDt(c, d2) == WSub(Wide(d2), WMul(Wide(c[5]), Wide(2 ^ 8)))

RefTemp1(c, d2) == WAdd(Wide(2000), WShr(WMul(Wide(c[6]), RefDt(c, d2)), 23))

RefSecondOrder(c, d2) ==
    LET dT   == RefDt(c, d2)
        TEMP == RefTemp1(c, d2)
    IN  IF WLess(TEMP, Wide(2000))
        THEN LET T2    == WShr(WMul(dT, dT), 31)
                 d     == WSub(TEMP, Wide(2000))
                 sq5   == WMul(Wide(5), WMul(d, d))
                 OFF2  == WShr(sq5, 1)
                 SENS2 == WShr(sq5, 2)
             IN  IF WLess(TEMP, Wide(-1500))
                 THEN LET e     == WAdd(TEMP, Wide(1500))
                          extra == WMul(e, e)
                      IN  << T2,
                             WAdd(OFF2, WMul(Wide(7), extra)),
                             WAdd(SENS2, WShr(WMul(Wide(11), extra), 1)) >>
                 ELSE << T2, OFF2, SENS2 >>
        ELSE << Wide(0), Wide(0), Wide(0) >>

Reference(c, d1, d2) ==
    LET dT   == RefDt(c, d2)
        so   == RefSecondOrder(c, d2)
        OFF  == WSub(WAdd(WMul(Wide(c[2]), Wide(2 ^ 16)), WShr(WMul(Wide(c[4]), dT), 7)), so[2])
        SENS == WSub(WAdd(WMul(Wide(c[1]), Wide(2 ^ 15)), WShr(WMul(Wide(c[3]), dT), 8)), so[3])
    IN  [TEMP |-> WSub(RefTemp1(c, d2), so[1]),
         P    |-> WSub(WShr(WMul(Wide(d1), SENS), 21), OFF)]


(***************************************************************************)
(* Bounds of the model.                                                    *)
(***************************************************************************)
\* Timer interrupts raised plus calls of ms5611_init made in one behaviour.
MaxEvents == 4
\* Depth of nested timer interrupts (the handler re-enables interrupts).
MaxNest == 2

(***************************************************************************)
(* The sensor and its PROM, behind I2Cdev.                                 *)
(***************************************************************************)
\* measureStep values (named in ms5611.h).
MS5611_STEP_READ_TEMP == "READ_TEMP"
MS5611_STEP_READ_PRESSURE == "READ_PRESSURE"

\* The coefficients C1..C6 in the PROM of the device: the example device of
\* the manufacturer's data sheet.
PromContents == { << 40127, 36924, 23317, 23282, 33464, 28312 >> }

\* The 24 bit result of the n-th conversion the sensor was told to start: a D1
\* (pressure) code or a D2 (temperature) code.  The codes of different
\* conversions differ, and a D1 code is never a D2 code.
D1Code(n) == 9085466 + n
D2Code(n) == 8569150 + n
IsD1Code(v) == v >= D1Code(1)
IsD2Code(v) == v >= D2Code(1) /\ v < D1Code(1)
\* The number of the conversion that produced the code v.
ConvOf(v) == IF IsD1Code(v) THEN v - D1Code(0) ELSE v - D2Code(0)

(***************************************************************************)
(* State.                                                                  *)
(***************************************************************************)
VARIABLES
    \* ms5611.cpp lines 7-22
    d1i, d2i, measureStep, newData, locked, interruptWait,
    deviceReset, c, compensatedTemperature, compensatedPressure,
    \* the timer: its counter TCNTn, kept as 0 (just cleared) or 1 (has counted
    \* since), and whether its compare interrupt is enabled
    TCNT, timerOn,
    \* the sensor: the value the next ADC read returns (0 when no conversion was
    \* started since the last read) and the number of conversions started
    adc, seq,
    \* the main loop: its position in the driver, and the locals d1, d2 of
    \* ms5611_updateData
    pc, d1, d2,
    \* the stack of timer interrupt handlers in progress, each at its position
    \* in ms5611_readStep; the last one is running
    isr,
    \* how the build orders the store of the non-volatile flag locked
    build,
    \* whether the behaviour keeps the history below; without it the number of
    \* timer interrupts is not bounded
    counting,
    \* history: interrupts raised, ms5611_readStep executions begun, interrupts
    \* that found interruptWait already set, calls of ms5611_init
    ticks, steps, coalesced, inits,
    \* history: executions begun since line 202 of the last ms5611_init, whether
    \* none of them overlapped another, and the last one to complete
    execs, clean, lastExec,
    \* history of the current ms5611_updateData call: interrupts raised between
    \* ms5611_lock and ms5611_release, steps begun and timer resets done by
    \* ms5611_release, writes of d1i, d2i or newData by a step between
    \* ms5611_lock and the clearing of locked
    lockTicks, relSteps, relReset, csWrite,
    \* history: no interrupt, step or init since the snapshot of the previous
    \* ms5611_updateData call (its line 229); whether the current call is the
    \* second of such a pair; whether newData was false when such a second call
    \* began; and whether such a second call stored the outputs it found
    quiet, second, startOK, sameOut,
    \* history: a READ_PRESSURE step has set newData (line 89) since the later
    \* of line 203 of the last ms5611_init and the last snapshot, the copy of
    \* d1i and d2i at lines 227-228
    pairDone,
    \* the last getter the main loop called and the output it read, until its
    \* next call of ms5611_init or ms5611_updateData
    ret

shared == << d1i, d2i, measureStep, newData >>
config == << build, counting >>
flags  == << locked, interruptWait >>
cal    == << deviceReset, c >>
outs   == << compensatedTemperature, compensatedPressure >>
sensor == << adc, seq >>
counts == << ticks, steps, coalesced, inits >>
runs   == << execs, clean, lastExec >>
relh   == << lockTicks, relSteps, relReset >>
pairh  == << second, startOK, sameOut >>
vars   == << shared, flags, cal, outs, TCNT, timerOn, sensor, pc, d1, d2, isr, config, ret,
             counts, runs, relh, csWrite, pairDone, quiet, pairh >>

(***************************************************************************)
(* locked and interruptWait (lines 15-16) are not volatile although the    *)
(* interrupt handler reads and writes them: the compiler orders the store  *)
(* at line 113 only against accesses of locked itself.  gcc -Os moves it   *)
(* below the loads of d1i and d2i (lines 227-228); gcc -O2 deletes it,     *)
(* since line 118 overwrites it before any read the compiler can see.      *)
(***************************************************************************)
Builds == { "written", "sunk", "elided" }

\* The positions of ms5611_readStep (by source line): the test at line 98, then
\* the bus read, the conversion command and the assignments of either branch.
StepPcs == { "s98", "t73", "t76", "t100", "p83", "p86", "p89", "p103" }

\* The main loop is between its call of ms5611_lock and the store of line 118.
LockHeld == { "u227", "u228", "u229", "r118" }

NoExec == [n |-> 0, to |-> MS5611_STEP_READ_TEMP, set |-> FALSE]

\* A history variable takes its new value only in a behaviour that keeps the
\* history.  Such a behaviour alone tells the samples apart: in the others the
\* result register of the sensor and the outputs stay as they are (no branch
\* of the sampler or of the handoff depends on them).
Hist(new, old) == IF counting THEN new ELSE old

\* No getter has returned since the last call of ms5611_init or ms5611_updateData.
NoValue == [fn |-> "none", arg |-> << Wide(0), 1 >>]

\* The state before the first call of the driver.
Start ==
    /\ d1i = 0 /\ d2i = 0
    /\ measureStep \in { MS5611_STEP_READ_TEMP, MS5611_STEP_READ_PRESSURE }
    /\ newData = FALSE
    /\ locked = FALSE /\ interruptWait = FALSE
    /\ deviceReset = FALSE /\ c = << 0, 0, 0, 0, 0, 0 >>
    /\ compensatedTemperature = << 0, 100 >>
    /\ compensatedPressure = << Wide(0), 32768 * 100 >>
    /\ TCNT = 0 /\ timerOn = FALSE
    /\ adc = 0 /\ seq = 0
    /\ pc = "idle" /\ d1 = 0 /\ d2 = 0
    /\ isr = << >>
    /\ build \in Builds
    /\ ticks = 0 /\ steps = 0 /\ coalesced = 0 /\ inits = 0
    /\ execs = 0 /\ clean = TRUE /\ lastExec = NoExec
    /\ lockTicks = 0 /\ relSteps = 0 /\ relReset = FALSE /\ csWrite = FALSE
    /\ quiet = FALSE /\ second = FALSE /\ startOK = TRUE /\ sameOut = TRUE
    /\ pairDone = newData
    /\ ret = NoValue

Init == Start /\ counting = TRUE


(***************************************************************************)
(* The sampler, lines 47-105.  ms5611_readStep(p, q) is the step of an     *)
(* execution at position p that takes it to position q ("ret" when the     *)
(* execution returns); the caller, the interrupt handler or                *)
(* ms5611_release, keeps the position.  Every access of a shared variable  *)
(* and every bus transaction is one step: a timer interrupt can come       *)
(* between any two of them.                                                *)
(***************************************************************************)
stepVars == << shared, sensor, lastExec, csWrite, pairDone >>

\* Lines 60-62: the command replaces whatever conversion was in flight.
ms5611_convertD1 == adc' = Hist(D1Code(seq + 1), adc) /\ seq' = Hist(seq + 1, seq)

\* Lines 65-67.
ms5611_convertD2 == adc' = Hist(D2Code(seq + 1), adc) /\ seq' = Hist(seq + 1, seq)

\* A faulty ms5611_readTempStep: line 100 leaves measureStep at READ_TEMP.
\* C1_Alternation rejects it.
readTempStep_NoAdvance(p, q) ==
    \/ /\ p = "t73" /\ q = "t76"
       /\ d1i' = adc /\ adc' = 0
       /\ csWrite' = Hist(csWrite \/ pc \in LockHeld, csWrite)
       /\ UNCHANGED << d2i, measureStep, newData, seq, lastExec, pairDone >>
    \/ /\ p = "t76" /\ q = "t100"
       /\ ms5611_convertD2
       /\ UNCHANGED << shared, lastExec, csWrite, pairDone >>
    \/ /\ p = "t100" /\ q = "ret"
       /\ measureStep' = MS5611_STEP_READ_TEMP
       /\ lastExec' = Hist([n |-> execs, to |-> MS5611_STEP_READ_TEMP, set |-> FALSE],
                            lastExec)
       /\ UNCHANGED << d1i, d2i, newData, sensor, csWrite, pairDone >>

\* Lines 70-77, and line 100 of ms5611_readStep.
ms5611_readTempStep(p, q) ==
    \/ /\ p = "t73" /\ q = "t76"
       \* ms5611_getDigitalValue(d1i), lines 48-57: the ADC read returns the
       \* pending result and leaves 0 behind
       /\ d1i' = adc /\ adc' = 0
       /\ csWrite' = Hist(csWrite \/ pc \in LockHeld, csWrite)
       /\ UNCHANGED << d2i, measureStep, newData, seq, lastExec, pairDone >>
    \/ /\ p = "t76" /\ q = "t100"
       /\ ms5611_convertD2
       /\ UNCHANGED << shared, lastExec, csWrite, pairDone >>
    \/ /\ p = "t100" /\ q = "ret"
       /\ measureStep' = MS5611_STEP_READ_PRESSURE
       /\ lastExec' = Hist([n |-> execs, to |-> MS5611_STEP_READ_PRESSURE, set |-> FALSE],
                            lastExec)
       /\ UNCHANGED << d1i, d2i, newData, sensor, csWrite, pairDone >>

\* Lines 80-90, and line 103 of ms5611_readStep.
ms5611_readPressureStep(p, q) ==
    \/ /\ p = "p83" /\ q = "p86"
       \* ms5611_getDigitalValue(d2i)
       /\ d2i' = adc /\ adc' = 0
       /\ csWrite' = Hist(csWrite \/ pc \in LockHeld, csWrite)
       /\ UNCHANGED << d1i, measureStep, newData, seq, lastExec, pairDone >>
    \/ /\ p = "p86" /\ q = "p89"
       /\ ms5611_convertD1
       /\ UNCHANGED << shared, lastExec, csWrite, pairDone >>
    \/ /\ p = "p89" /\ q = "p103"
       /\ newData' = TRUE
       /\ pairDone' = Hist(TRUE, pairDone)
       /\ csWrite' = Hist(csWrite \/ pc \in LockHeld, csWrite)
       /\ UNCHANGED << d1i, d2i, measureStep, sensor, lastExec >>
    \/ /\ p = "p103" /\ q = "ret"
       /\ measureStep' = MS5611_STEP_READ_TEMP
       /\ lastExec' = Hist([n |-> execs, to |-> MS5611_STEP_READ_TEMP, set |-> TRUE],
                            lastExec)
       /\ UNCHANGED << d1i, d2i, newData, sensor, csWrite, pairDone >>

\* Lines 96-105.
ms5611_readStep(p, q) ==
    \/ /\ p = "s98"
       /\ q = IF measureStep = MS5611_STEP_READ_TEMP THEN "t73" ELSE "p83"
       /\ UNCHANGED stepVars
    \/ ms5611_readTempStep(p, q)
    \/ ms5611_readPressureStep(p, q)

\* Some execution of ms5611_readStep is in progress in the main loop / at all.
MainInStep == pc \in StepPcs
Executing == (IF MainInStep THEN 1 ELSE 0) + Len(isr)

(***************************************************************************)
(* The timer and its interrupt handler, lines 137-153.                     *)
(***************************************************************************)
\* The timer counts.
TimerCount ==
    /\ timerOn /\ TCNT = 0
    /\ TCNT' = 1
    /\ UNCHANGED << shared, flags, cal, outs, timerOn, sensor, pc, d1, d2, isr, config, ret,
                    counts, runs, relh, csWrite, pairDone, quiet, pairh >>

\* What every compare match does (OCRnA = MS5611_INTERRUPT_COMPARE): the counter
\* restarts (CTC mode) and the handler is entered with interrupts disabled.
CompareMatch ==
    /\ timerOn /\ TCNT # 0
    /\ counting => ticks + inits < MaxEvents
    /\ TCNT' = 0
    /\ ticks' = Hist(ticks + 1, ticks)
    /\ lockTicks' = Hist(IF pc \in LockHeld THEN lockTicks + 1 ELSE lockTicks, lockTicks)
    /\ quiet' = FALSE

\* A faulty handler: the return of line 145 is missing, so the handler that
\* found the lock held goes on to its step.  C7_DeferredFrame rejects it.
ISR_DeferredNoReturn ==
    /\ CompareMatch
    /\ locked
    /\ Len(isr) < MaxNest
    /\ interruptWait' = TRUE
    /\ isr' = Append(isr, "s98")
    /\ coalesced' = Hist(IF interruptWait THEN coalesced + 1 ELSE coalesced, coalesced)
    /\ UNCHANGED << shared, locked, cal, outs, timerOn, sensor, pc, d1, d2, config, ret,
                    steps, inits, runs, relSteps, relReset, csWrite, pairDone, pairh >>

\* Lines 143-146: the lock is held, leave the step to ms5611_release.
ISR_Deferred ==
    /\ CompareMatch
    /\ locked
    /\ interruptWait' = TRUE
    /\ coalesced' = Hist(IF interruptWait THEN coalesced + 1 ELSE coalesced, coalesced)
    /\ UNCHANGED << shared, locked, cal, outs, timerOn, sensor, pc, d1, d2, isr, config, ret,
                    steps, inits, runs, relSteps, relReset, csWrite, pairDone, pairh >>

\* A faulty handler: it sets interruptWait before it looks at locked, so a
\* handler that finds the lock free sets it too.  C15_WaitOnlyUnderLock rejects
\* it.
ISR_StepMarksWait ==
    /\ CompareMatch
    /\ ~locked
    /\ Len(isr) < MaxNest
    /\ interruptWait' = TRUE
    /\ isr' = Append(isr, "s98")
    /\ steps' = Hist(steps + 1, steps)
    /\ execs' = Hist(execs + 1, execs)
    /\ clean' = Hist(clean /\ Executing = 0, clean)
    /\ UNCHANGED << shared, locked, cal, outs, timerOn, sensor, pc, d1, d2, config, ret,
                    coalesced, inits, lastExec, relSteps, relReset, csWrite, pairDone, pairh >>

\* Lines 149-152: interrupts are enabled again and the handler begins a step.
ISR_Step ==
    /\ CompareMatch
    /\ ~locked
    /\ Len(isr) < MaxNest
    /\ isr' = Append(isr, "s98")
    /\ steps' = Hist(steps + 1, steps)
    /\ execs' = Hist(execs + 1, execs)
    /\ clean' = Hist(clean /\ Executing = 0, clean)
    /\ UNCHANGED << shared, flags, cal, outs, timerOn, sensor, pc, d1, d2, config, ret,
                    coalesced, inits, lastExec, relSteps, relReset, csWrite, pairDone, pairh >>

ISR == ISR_Deferred \/ ISR_Step

\* The running handler takes one step of its ms5611_readStep, line 152, and
\* returns after the last one.
ISR_ReadStep ==
    /\ isr # << >>
    /\ \E q \in StepPcs \cup { "ret" } :
          /\ ms5611_readStep(isr[Len(isr)], q)
          /\ isr' = IF q = "ret" THEN SubSeq(isr, 1, Len(isr) - 1)
                    ELSE [isr EXCEPT ![Len(isr)] = q]
    /\ quiet' = FALSE
    /\ UNCHANGED << flags, cal, outs, TCNT, timerOn, pc, d1, d2, config, ret,
                    counts, execs, clean, relh, pairh >>


(***************************************************************************)
(* The main loop.  It runs only while no interrupt handler is in progress. *)
(***************************************************************************)
MainRuns == isr = << >>

(***************************************************************************)
(* ms5611_init, lines 185-212.                                             *)
(***************************************************************************)
\* A faulty ms5611_init: it does not test deviceReset, so every call resets the
\* sensor and reads the PROM.  C12_CoefficientsOnce rejects it.
init_resetAlways ==
    /\ MainRuns /\ pc = "idle"
    /\ IF counting THEN ticks + inits < MaxEvents ELSE inits = 0
    /\ inits' = inits + 1
    /\ deviceReset' = TRUE
    /\ adc' = 0
    /\ \E v \in PromContents : c' = v
    /\ pc' = "i202"
    /\ quiet' = FALSE
    /\ ret' = NoValue
    /\ UNCHANGED << shared, flags, outs, TCNT, timerOn, seq, d1, d2, isr, config,
                    ticks, steps, coalesced, runs, relh, csWrite, pairDone, pairh >>

\* Lines 188-199: the first call resets the sensor and reads the PROM.
init_reset ==
    /\ MainRuns /\ pc = "idle"
    /\ IF counting THEN ticks + inits < MaxEvents ELSE inits = 0
    /\ inits' = inits + 1
    /\ IF ~deviceReset
       THEN /\ deviceReset' = TRUE
            /\ adc' = 0
            /\ \E v \in PromContents : c' = v
       ELSE UNCHANGED << deviceReset, adc, c >>
    /\ pc' = "i202"
    /\ quiet' = FALSE
    /\ ret' = NoValue
    /\ UNCHANGED << shared, flags, outs, TCNT, timerOn, seq, d1, d2, isr, config,
                    ticks, steps, coalesced, runs, relh, csWrite, pairDone, pairh >>

\* Line 202.
init_measureStep ==
    /\ MainRuns /\ pc = "i202"
    /\ measureStep' = MS5611_STEP_READ_TEMP
    /\ execs' = 0 /\ clean' = TRUE /\ lastExec' = NoExec
    /\ pc' = "i203"
    /\ quiet' = FALSE
    /\ UNCHANGED << d1i, d2i, newData, flags, cal, outs, TCNT, timerOn, sensor, d1, d2,
                    isr, config, ret, counts, relh, csWrite, pairDone, pairh >>

\* Line 203.
init_newData ==
    /\ MainRuns /\ pc = "i203"
    /\ newData' = FALSE
    /\ pairDone' = Hist(FALSE, pairDone)
    /\ pc' = "i206"
    /\ quiet' = FALSE
    /\ UNCHANGED << d1i, d2i, measureStep, flags, cal, outs, TCNT, timerOn, sensor, d1, d2,
                    isr, config, ret, counts, runs, relh, csWrite, pairh >>

\* Lines 206-207.
init_convertD1 ==
    /\ MainRuns /\ pc = "i206"
    /\ ms5611_convertD1
    /\ pc' = "i210"
    /\ quiet' = FALSE
    /\ UNCHANGED << shared, flags, cal, outs, TCNT, timerOn, d1, d2, isr, config, ret,
                    counts, runs, relh, csWrite, pairDone, pairh >>

\* Line 210, ms5611_setTimer (lines 157-177), with interrupts disabled.
ms5611_setTimer ==
    /\ MainRuns /\ pc = "i210"
    /\ TCNT' = 0 /\ timerOn' = TRUE
    /\ pc' = "idle"
    /\ quiet' = FALSE
    /\ UNCHANGED << shared, flags, cal, outs, sensor, d1, d2, isr, config, ret,
                    counts, runs, relh, csWrite, pairDone, pairh >>

ms5611_init ==
    init_reset \/ init_measureStep \/ init_newData \/ init_convertD1 \/ ms5611_setTimer

(***************************************************************************)
(* ms5611_updateData, lines 221-307, with ms5611_lock (112-114) and        *)
(* ms5611_release (117-132).                                               *)
(***************************************************************************)
\* Line 226: the call of ms5611_lock.  The store of line 113 is done here in
\* the build that keeps the order of the source.
ms5611_lock ==
    /\ MainRuns /\ pc = "idle"
    /\ locked' = IF build = "written" THEN TRUE ELSE locked
    /\ pc' = "u227"
    /\ lockTicks' = 0 /\ relSteps' = 0 /\ relReset' = FALSE /\ csWrite' = FALSE
    /\ second' = Hist(quiet, second)
    /\ startOK' = Hist(quiet => ~newData, startOK)
    /\ quiet' = FALSE
    /\ ret' = NoValue
    /\ UNCHANGED << shared, interruptWait, cal, outs, TCNT, timerOn, sensor, d1, d2, isr,
                    config, counts, runs, sameOut, pairDone >>

\* Line 227.
update_d1 ==
    /\ MainRuns /\ pc = "u227"
    /\ d1' = d1i
    /\ pc' = "u228"
    /\ UNCHANGED << shared, flags, cal, outs, TCNT, timerOn, sensor, d2, isr, config, ret,
                    counts, runs, relh, csWrite, pairDone, quiet, pairh >>

\* Line 228: the snapshot is taken.
update_d2 ==
    /\ MainRuns /\ pc = "u228"
    /\ d2' = d2i
    /\ pairDone' = Hist(FALSE, pairDone)
    /\ pc' = "u229"
    /\ UNCHANGED << shared, flags, cal, outs, TCNT, timerOn, sensor, d1, isr, config, ret,
                    counts, runs, relh, csWrite, quiet, pairh >>

\* Line 229.  The build that moved the store of line 113 below the loads does
\* it here.
update_newData ==
    /\ MainRuns /\ pc = "u229"
    /\ locked' = IF build = "sunk" THEN TRUE ELSE locked
    /\ newData' = FALSE
    /\ pc' = "r118"
    /\ quiet' = Hist(TRUE, quiet)
    /\ UNCHANGED << d1i, d2i, measureStep, interruptWait, cal, outs, TCNT, timerOn, sensor,
                    d1, d2, isr, config, ret, counts, runs, relh, csWrite, pairDone, pairh >>

\* A faulty ms5611_release: line 118 is missing, so the lock stays held.
\* C16_LockPaired rejects it.
release_KeepLock ==
    /\ MainRuns /\ pc = "r118"
    /\ pc' = "r121"
    /\ UNCHANGED << shared, flags, cal, outs, TCNT, timerOn, sensor, d1, d2, isr,
                    config, ret, counts, runs, relh, csWrite, pairDone, quiet, pairh >>

\* Line 118.
release_unlock ==
    /\ MainRuns /\ pc = "r118"
    /\ locked' = FALSE
    /\ pc' = "r121"
    /\ UNCHANGED << shared, interruptWait, cal, outs, TCNT, timerOn, sensor, d1, d2, isr,
                    config, ret, counts, runs, relh, csWrite, pairDone, quiet, pairh >>

\* A faulty ms5611_release: it does not look at interruptWait and returns after
\* line 118.  C8_Progress rejects it.
release_NoCatchUp ==
    /\ MainRuns /\ pc = "r121"
    /\ pc' = "u232"
    /\ UNCHANGED << shared, flags, cal, outs, TCNT, timerOn, sensor, d1, d2, isr, config, ret,
                    counts, runs, relh, csWrite, pairDone, quiet, pairh >>

\* Lines 121-122: the test of interruptWait; when it is set the main loop
\* begins the step the handler left to it.
release_test ==
    /\ MainRuns /\ pc = "r121"
    /\ IF interruptWait
       THEN /\ pc' = "s98"
            /\ steps' = Hist(steps + 1, steps)
            /\ execs' = Hist(execs + 1, execs)
            /\ relSteps' = relSteps + 1
            /\ quiet' = FALSE
       ELSE /\ pc' = "u232"
            /\ UNCHANGED << steps, execs, relSteps, quiet >>
    /\ UNCHANGED << shared, flags, cal, outs, TCNT, timerOn, sensor, d1, d2, isr, config, ret,
                    ticks, coalesced, inits, clean, lastExec, lockTicks, relReset,
                    csWrite, pairDone, pairh >>

\* Line 122: one step of the ms5611_readStep run by ms5611_release.
release_readStep ==
    /\ MainRuns /\ MainInStep
    /\ \E q \in StepPcs \cup { "ret" } :
          /\ ms5611_readStep(pc, q)
          /\ pc' = IF q = "ret" THEN "r125" ELSE q
    /\ quiet' = FALSE
    /\ UNCHANGED << flags, cal, outs, TCNT, timerOn, d1, d2, isr, config, ret,
                    counts, execs, clean, relh, pairh >>

\* Lines 124-128.
release_resetTimer ==
    /\ MainRuns /\ pc = "r125"
    /\ TCNT' = 0
    /\ relReset' = TRUE
    /\ pc' = "r130"
    /\ UNCHANGED << shared, flags, cal, outs, timerOn, sensor, d1, d2, isr, config, ret,
                    counts, runs, lockTicks, relSteps, csWrite, pairDone, quiet, pairh >>

\* A faulty ms5611_release: line 130 is missing, so interruptWait stays set and
\* the next ms5611_release runs a step no interrupt asked for.  C3_Amended
\* rejects it.
release_KeepWait ==
    /\ MainRuns /\ pc = "r130"
    /\ pc' = "u232"
    /\ UNCHANGED << shared, flags, cal, outs, TCNT, timerOn, sensor, d1, d2, isr, config, ret,
                    counts, runs, relh, csWrite, pairDone, quiet, pairh >>

\* Line 130.
release_clearWait ==
    /\ MainRuns /\ pc = "r130"
    /\ interruptWait' = FALSE
    /\ pc' = "u232"
    /\ UNCHANGED << shared, locked, cal, outs, TCNT, timerOn, sensor, d1, d2, isr, config, ret,
                    counts, runs, relh, csWrite, pairDone, quiet, pairh >>

ms5611_release ==
    \/ release_unlock \/ release_test \/ release_readStep
    \/ release_resetTimer \/ release_clearWait

\* Lines 232-306: the compensation of the snapshot and the two stores.
update_compute ==
    /\ MainRuns /\ pc = "u232"
    /\ IF counting
       THEN LET r == ms5611_compensate(c, d1, d2)
            IN  /\ compensatedTemperature' = CompensatedTemperatureOf(r)
                /\ compensatedPressure' = CompensatedPressureOf(r)
                /\ sameOut' = (second => /\ CompensatedTemperatureOf(r) = compensatedTemperature
                                         /\ CompensatedPressureOf(r) = compensatedPressure)
       ELSE UNCHANGED << outs, sameOut >>
    /\ pc' = "idle"
    \* the locals and the history of the call end with it
    /\ d1' = 0 /\ d2' = 0
    /\ lockTicks' = 0 /\ relSteps' = 0 /\ relReset' = FALSE /\ csWrite' = FALSE
    /\ UNCHANGED << shared, flags, cal, TCNT, timerOn, sensor, isr, config, ret,
                    counts, runs, quiet, second, startOK, pairDone >>

ms5611_updateData ==
    \/ ms5611_lock \/ update_d1 \/ update_d2 \/ update_newData
    \/ ms5611_release \/ update_compute

(***************************************************************************)
(* The getters, lines 310-325.  The main loop calls them between its calls *)
(* of ms5611_init and ms5611_updateData.  ret records the getter and the   *)
(* output it read, a pair of a wide numerator and a denominator: the value *)
(* returned is that output, or for ms5611_getAltitude the altitude formula *)
(* of lines 322-323 applied to it.                                         *)
(***************************************************************************)
getterFrame == << shared, flags, cal, outs, TCNT, timerOn, sensor, pc, d1, d2, isr, config,
                  counts, runs, relh, csWrite, pairDone, quiet, pairh >>

\* A faulty ms5611_getAltitude: it keeps its result in compensatedPressure.
\* C17_WritersOnly rejects it.
getAltitude_Stores ==
    /\ MainRuns /\ pc = "idle"
    /\ ret' = [fn |-> "getAltitude", arg |-> compensatedPressure]
    /\ compensatedPressure' = << Wide(0), 1 >>
    /\ UNCHANGED << shared, flags, cal, compensatedTemperature, TCNT, timerOn, sensor, pc,
                    d1, d2, isr, config, counts, runs, relh, csWrite, pairDone, quiet,
                    pairh >>

\* Lines 310-312.
ms5611_getTemperature ==
    /\ MainRuns /\ pc = "idle"
    /\ ret' = [fn |-> "getTemperature",
               arg |-> << Wide(compensatedTemperature[1]), compensatedTemperature[2] >>]
    /\ UNCHANGED getterFrame

\* Lines 315-317.
ms5611_getPressure ==
    /\ MainRuns /\ pc = "idle"
    /\ ret' = [fn |-> "getPressure", arg |-> compensatedPressure]
    /\ UNCHANGED getterFrame

\* Lines 320-325.
ms5611_getAltitude ==
    /\ MainRuns /\ pc = "idle"
    /\ ret' = [fn |-> "getAltitude", arg |-> compensatedPressure]
    /\ UNCHANGED getterFrame

Next ==
    \/ TimerCount
    \/ ISR
    \/ ISR_ReadStep
    \/ ms5611_init
    \/ ms5611_updateData
    \/ ms5611_getTemperature
    \/ ms5611_getPressure
    \/ ms5611_getAltitude

Spec == Init /\ [][Next]_vars

(***************************************************************************)
(* Progress.  The timer runs free, so its interrupt is raised again and    *)
(* again.  Interrupted code gets its turn again and again: the processor   *)
(* executes an instruction of the interrupted code after every return from *)
(* an interrupt before it serves the next one.  So a handler that was      *)
(* interrupted by a nested one, and the main loop once inside ms5611_init  *)
(* or ms5611_updateData, run on to their return (strong fairness, since    *)
(* each is stopped while a handler above it is in progress).  Nothing      *)
(* makes the main loop begin a call.  The number of interrupts is not      *)
(* bounded here, so the history is not kept, and ms5611_init is called     *)
(* once.                                                                   *)
(***************************************************************************)
InitLive == Start /\ counting = FALSE

\* The handler at nesting depth k takes a step of its ms5611_readStep.
HandlerContinues(k) == ISR_ReadStep /\ Len(isr) = k

MainContinues ==
    \/ init_measureStep \/ init_newData \/ init_convertD1 \/ ms5611_setTimer
    \/ update_d1 \/ update_d2 \/ update_newData \/ ms5611_release \/ update_compute

SpecLive ==
    /\ InitLive /\ [][Next]_vars
    /\ WF_vars(TimerCount) /\ WF_vars(ISR)
    /\ \A k \in 1 .. MaxNest : SF_vars(HandlerContinues(k))
    /\ SF_vars(MainContinues)

(***************************************************************************)
(* The compensation alone: ms5611_updateData called again and again on     *)
(* coefficients and samples drawn from their ranges, with the timer        *)
(* interrupt masked, so that ms5611_release finds nothing to catch up.     *)
(***************************************************************************)
CompCoefs == PromContents \cup { << 0, 0, 0, 0, 0, 0 >>,
                                 << 65535, 65535, 65535, 65535, 65535, 65535 >> }
CompD1 == { 0, 9085466, 16777215 }
CompD2 == { 0, 8000000, 8569150, 16777215 }

InitComp ==
    /\ d1i \in CompD1 /\ d2i \in CompD2
    /\ measureStep \in { MS5611_STEP_READ_TEMP, MS5611_STEP_READ_PRESSURE }
    /\ newData \in BOOLEAN
    /\ locked = FALSE /\ interruptWait = FALSE
    /\ deviceReset = TRUE /\ c \in CompCoefs
    /\ compensatedTemperature = << 0, 100 >>
    /\ compensatedPressure = << Wide(0), 32768 * 100 >>
    /\ TCNT = 0 /\ timerOn = TRUE
    /\ adc = 0 /\ seq = 0
    /\ pc = "idle" /\ d1 = 0 /\ d2 = 0
    /\ isr = << >>
    /\ build \in Builds /\ counting = TRUE
    /\ ticks = 0 /\ steps = 0 /\ coalesced = 0 /\ inits = 1
    /\ execs = 0 /\ clean = TRUE /\ lastExec = NoExec
    /\ lockTicks = 0 /\ relSteps = 0 /\ relReset = FALSE /\ csWrite = FALSE
    /\ quiet = FALSE /\ second = FALSE /\ startOK = TRUE /\ sameOut = TRUE
    /\ pairDone = newData
    /\ ret = NoValue

NextComp ==
    \/ ms5611_lock \/ update_d1 \/ update_d2 \/ update_newData
    \/ release_unlock \/ release_test \/ update_compute

SpecComp == InitComp /\ [][NextComp]_vars

TypeOK ==
    /\ ret.fn \in { "none", "getTemperature", "getPressure", "getAltitude" }
    /\ d1i \in Nat /\ d2i \in Nat
    /\ measureStep \in { MS5611_STEP_READ_TEMP, MS5611_STEP_READ_PRESSURE }
    /\ newData \in BOOLEAN /\ locked \in BOOLEAN /\ interruptWait \in BOOLEAN
    /\ TCNT \in { 0, 1 } /\ timerOn \in BOOLEAN
    /\ pc \in { "idle", "i202", "i203", "i206", "i210", "u227", "u228", "u229",
                "r118", "r121", "r125", "r130", "u232" } \cup StepPcs
    /\ Len(isr) <= MaxNest
    /\ counting \in BOOLEAN /\ pairDone \in BOOLEAN
    /\ ticks + inits <= MaxEvents /\ steps \in 0 .. ticks


(***************************************************************************)
(* Claims.                                                                 *)
(***************************************************************************)

\* C1: from the state ms5611_init sets, complete executions of ms5611_readStep
\* that do not overlap alternate measureStep READ_TEMP -> READ_PRESSURE ->
\* READ_TEMP ..., and exactly the even numbered ones set newData: the n-th
\* execution leaves READ_PRESSURE and sets nothing when n is odd, leaves
\* READ_TEMP and sets newData when n is even.
C1_Alternation ==
    (clean /\ lastExec.n >= 1) =>
        /\ lastExec.to = IF lastExec.n % 2 = 1 THEN MS5611_STEP_READ_PRESSURE
                         ELSE MS5611_STEP_READ_TEMP
        /\ lastExec.set = (lastExec.n % 2 = 0)

\* C1 witness: three executions in a row have completed without overlap, the
\* second having set newData.
C1_Witness ==
    /\ clean /\ Executing = 0 /\ lastExec.n = 3
    /\ measureStep = MS5611_STEP_READ_PRESSURE /\ newData

C3_Original ==
    /\ steps <= ticks
    /\ ~interruptWait => steps = ticks

\* The interrupt that set interruptWait still waits for ms5611_release to begin
\* its step.
StepOwed == IF interruptWait /\ pc \in LockHeld \cup { "r121" } THEN 1 ELSE 0

\* C3 amended: every timer interrupt leads to at most one execution of
\* ms5611_readStep, by the handler or by ms5611_release: the executions begun
\* never outnumber the interrupts, and they equal the interrupts less those
\* that found interruptWait already set (they share the one step of the first
\* deferred interrupt) and less the one step ms5611_release still owes; so
\* with interruptWait false the count is interrupts minus the coalesced ones.
C3_Amended ==
    /\ steps <= ticks
    /\ steps + coalesced + StepOwed = ticks
    /\ ~interruptWait => steps = ticks - coalesced

\* C3 witness: one interrupt ran its own step, another was deferred and
\* ms5611_release has begun the step for it.
C3_Witness == ticks >= 2 /\ relSteps = 1 /\ steps = ticks /\ pc = "r130"

C5_NoOverlap == Executing <= 1

\* C6: whenever newData is true, d1i and d2i both hold a sample (not the 0 of
\* an empty ADC register) and the two come from consecutive conversions: d2i
\* from the conversion after that of d1i (same cycle) or d1i from the
\* conversion after that of d2i (next cycle).  ms5611_init starts a conversion
\* of its own, so a sample from before the last ms5611_init is not consecutive
\* to one from after it.
C6_FreshPair ==
    newData =>
        /\ d1i # 0 /\ d2i # 0
        /\ \/ ConvOf(d2i) = ConvOf(d1i) + 1
           \/ ConvOf(d1i) = ConvOf(d2i) + 1

\* C7: a timer interrupt raised while locked is true sets interruptWait and
\* returns: d1i, d2i, measureStep, newData and locked stay as they are, the
\* sensor sees no bus read and no conversion command, no handler stays in
\* progress and the main loop stays where it is.
C7_DeferredFrame ==
    [][ (ticks' = ticks + 1 /\ locked) =>
            /\ interruptWait' = TRUE
            /\ UNCHANGED << shared, locked, sensor, isr, pc >> ]_vars

\* C7 witness: an interrupt was raised while the lock was held and has set
\* interruptWait.
C7_Witness == locked /\ interruptWait /\ lockTicks >= 1 /\ isr = << >>

C8_Progress ==
    /\ interruptWait ~> (pc = "u232" /\ relSteps >= 1 /\ ~interruptWait)
    /\ (pc = "r118" /\ timerOn) ~> newData

\* C8 witness: an interrupt was deferred, ms5611_release has run the step for
\* it and cleared interruptWait, and that step has set newData after the
\* snapshot cleared it.
C8_Witness == pc = "u232" /\ relSteps = 1 /\ ~interruptWait /\ newData

\* C10: when a call of ms5611_updateData has returned, the product C6 * dT was
\* within the int32_t it is computed in, and the integers TEMP and P stored are
\* those of the reference algorithm in unbounded integers.
C10_NoOverflow ==
    (pc = "idle" /\ quiet) =>
        /\ Fits32(WMul(Wide(c[6]), Wide(CompDt(c, d2i))))
        /\ Wide(compensatedTemperature[1]) = Reference(c, d1i, d2i).TEMP
        /\ compensatedPressure[1] = Reference(c, d1i, d2i).P

\* The second order terms << T2, OFF2, SENS2 >> as C11 words them, in integers
\* that do not wrap, for a dT and a first order TEMP.
C11_Terms(dt, temp) ==
    LET sq(x) == WMul(Wide(x), Wide(x))
        T2    == WShr(sq(dt), 31)
        low   == WMul(Wide(5), sq(temp - 2000))
        cold  == sq(temp + 1500)
    IN  IF temp >= 2000 THEN << Wide(0), Wide(0), Wide(0) >>
        ELSE IF temp >= -1500 THEN << T2, WShr(low, 1), WShr(low, 2) >>
        ELSE << T2,
                WAdd(WShr(low, 1), WMul(Wide(7), cold)),
                WAdd(WShr(low, 2), WShr(WMul(Wide(11), cold), 1)) >>

\* Values of dT and of the first order TEMP on both sides of the two tests.
C11_Dts == { -16776960, -566784, 0, 16777215 }
C11_Temps == { -4000, -1501, -1500, -1499, 0, 1999, 2000, 2001, 4000 }

\* C11: the second order terms the driver computes for a dT and a first order
\* TEMP are those of C11_Terms (none at TEMP >= 2000, the low temperature
\* terms below 2000, the very low temperature additions below -1500, both
\* tests on the first order TEMP), and a call of ms5611_updateData that has
\* returned has subtracted each of them once from the first order TEMP, OFF
\* and SENS it computed.
C11_SecondOrderOnce ==
    /\ \A dt \in C11_Dts, temp \in C11_Temps :
           CompSecondOrder(dt, temp) = C11_Terms(dt, temp)
    /\ (pc = "idle" /\ quiet) =>
           LET dt   == CompDt(c, d2i)
               temp == CompTemp(c, dt)
               t    == C11_Terms(dt, temp)
               off  == WSub(CompOff(c, dt), t[2])
               sens == WSub(CompSens(c, dt), t[3])
           IN  /\ Wide(compensatedTemperature[1]) = WSub(Wide(temp), t[1])
               /\ compensatedPressure[1] = WSub(WShr(WMul(Wide(d1i), sens), 21), off)

\* C11 witness: a call has returned whose first order TEMP was below 2000 and
\* whose T2 was not zero, so the stored TEMP differs from the first order one.
C11_Witness ==
    /\ pc = "idle" /\ quiet
    /\ CompTemp(c, CompDt(c, d2i)) < 2000
    /\ compensatedTemperature[1] # CompTemp(c, CompDt(c, d2i))

\* C12: c1..c6 change only in the first call of ms5611_init, at its entry; a
\* later call of ms5611_init resets nothing on the device and reads no
\* coefficient, but still assigns READ_TEMP to measureStep (line 202) and false
\* to newData (line 203) and starts a D1 conversion (line 206); no other step
\* of the driver changes c1..c6.
C12_CoefficientsOnce ==
    [][ /\ c' # c => (inits = 0 /\ pc = "idle" /\ pc' = "i202")
        /\ (inits >= 1 /\ pc = "idle" /\ pc' = "i202") =>
               UNCHANGED << c, deviceReset, adc >>
        /\ (pc = "i202" /\ pc' = "i203") => measureStep' = MS5611_STEP_READ_TEMP
        /\ (pc = "i203" /\ pc' = "i206") => newData' = FALSE
        /\ (pc = "i206" /\ pc' = "i210") => (adc' = D1Code(seq') /\ seq' = seq + 1)
      ]_vars

\* C12 witness: a second call of ms5611_init has restarted the D1 conversion
\* and the coefficients are those the first call read.
C12_Witness ==
    /\ inits = 2 /\ pc = "i210" /\ IsD1Code(adc) /\ seq >= 2
    /\ c \in PromContents /\ ~newData

\* Lines 216-218: what ms5611_dataReady returns; it has no effect.
ms5611_dataReady == newData

C14_Pipeline ==
    (inits = 1 /\ timerOn) =>
        /\ Executing = 0 =>
               IF measureStep = MS5611_STEP_READ_TEMP THEN IsD1Code(adc) ELSE IsD2Code(adc)
        /\ d1i # 0 => IsD1Code(d1i)
        /\ d2i # 0 => IsD2Code(d2i)

\* The main loop is inside ms5611_updateData, after its call of ms5611_lock and
\* before the return of ms5611_release.
InLockRelease == pc \in LockHeld \cup { "r121", "r125", "r130" } \cup StepPcs

\* C15: interruptWait becomes true only in a step of the interrupt handler
\* that found locked true; an interrupt served while locked is false leaves
\* interruptWait as it is; and in every state interruptWait is true only while
\* the main loop is inside ms5611_updateData between ms5611_lock and the end
\* of ms5611_release.
C15_WaitOnlyUnderLock ==
    /\ [](interruptWait => InLockRelease)
    /\ [][ /\ (interruptWait' /\ ~interruptWait) => (locked /\ ticks' = ticks + 1 /\ pc' = pc)
           /\ (ticks' = ticks + 1 /\ ~locked) => interruptWait' = interruptWait ]_vars

\* An interrupt found the lock held, and ms5611_release has cleared locked and
\* is about to test interruptWait.
C15_Witness == interruptWait /\ ~locked /\ pc = "r121" /\ lockTicks >= 1

\* The main loop is outside ms5611_updateData: between calls or in ms5611_init.
OutsideUpdate == pc \in { "idle", "i202", "i203", "i206", "i210" }

\* C16: locked is true only between the call of ms5611_lock and line 118 of
\* the ms5611_release that follows it in ms5611_updateData; once that
\* ms5611_release has returned, and whenever the main loop is outside
\* ms5611_updateData, locked and interruptWait are both false.
C16_LockPaired ==
    /\ locked => pc \in LockHeld
    /\ (pc = "u232" \/ OutsideUpdate) => (~locked /\ ~interruptWait)

\* A call of ms5611_updateData that held the lock has returned, and nothing has
\* run since its snapshot.
C16_Witness ==
    pc = "idle" /\ quiet /\ build = "written" /\ ~locked /\ ~interruptWait /\ ticks >= 1

\* The step is one of an execution of ms5611_readStep, in the handler on top
\* or, when none is in progress, in ms5611_release.
StepOfReadStep == IF isr # << >> THEN isr' # isr /\ pc' = pc ELSE MainInStep /\ pc' # pc

\* The step is one of the main loop inside ms5611_updateData.
StepOfUpdate == isr = << >> /\ pc' # pc /\ (~OutsideUpdate \/ pc' = "u227")

\* C17: d1i and d2i change only in a step of ms5611_readStep, measureStep only
\* there or at line 202 of ms5611_init; while no interrupt has been raised in
\* its critical section, a call of ms5611_updateData runs no ms5611_readStep
\* and its steps change, of the driver's state, only newData (to false), the
\* two outputs and locked, which is false again when the call returns; and a
\* getter changes nothing but the value handed to its caller.
C17_WritersOnly ==
    [][ /\ (d1i' # d1i \/ d2i' # d2i) => StepOfReadStep
        /\ measureStep' # measureStep => (StepOfReadStep \/ (pc = "i202" /\ pc' = "i203"))
        /\ (StepOfUpdate /\ lockTicks = 0) =>
               /\ ~MainInStep /\ pc \notin { "r125", "r130" }
               /\ UNCHANGED << d1i, d2i, measureStep, interruptWait, cal, TCNT, timerOn,
                               sensor >>
               /\ newData' # newData => ~newData'
               /\ pc' = "idle" => ~locked'
        /\ (ret'.fn # "none" /\ ret' # ret) => UNCHANGED getterFrame ]_vars

\* ms5611_getAltitude has returned after a call of ms5611_updateData that took
\* a pair of samples and since whose snapshot nothing else has run.
C17_Witness ==
    /\ pc = "idle" /\ ret.fn = "getAltitude" /\ quiet /\ ~newData
    /\ IsD1Code(d1i) /\ IsD2Code(d2i) /\ ret.arg = compensatedPressure
    /\ compensatedTemperature # << 0, 100 >>

=============================================================================
